---- MODULE Spec2Model ----
(***************************************************************************)
(* Model of src/src/providers/watsonx-provider.ts: the IBM watsonx.ai      *)
(* streaming provider.                                                     *)
(*                                                                         *)
(*   - tokenCache / getIamToken : the process-wide IAM token cache         *)
(*   - buildWatsonxPrompt       : the rendering of a context as a prompt   *)
(*   - streamWatsonx            : the background task of one invocation,   *)
(*     cut at its await points (token exchange, generation request, each   *)
(*     reader.read()), with the SSE line splitter and the cumulative-text  *)
(*     delta reconstruction of the read loop.                              *)
(*                                                                         *)
(* Strings are sequences of one-character strings.  Time is in             *)
(* milliseconds, as Date.now() gives it.  The response body is a sequence  *)
(* of characters delivered by reader.read() in chunks of any size.         *)
(* The JSON text of a frame is written in a short wire notation (see       *)
(* JSONparse); TextDecoder is the identity on the one-byte characters      *)
(* used here.  The cost breakdown of output.usage is not modelled.         *)
(***************************************************************************)
EXTENDS Integers, Sequences, FiniteSets, TLC

VARIABLES
    tokenCache,   \* Map<string, TokenCache>: cacheKey -> [token, expiresAt]
    now,          \* Date.now(), in ms
    issued,       \* access tokens the identity endpoint has issued so far
    started,      \* invocations of streamWatsonx so far
    inv           \* per task: the locals of one streamWatsonx invocation

vars == <<tokenCache, now, issued, started, inv>>

----------------------------------------------------------------------------
(* Bounds of the model *)

MaxInvocations == 3     \* invocations of streamWatsonx in one behaviour
MaxTicks == 3           \* clock advances in one behaviour
MaxLines == 2           \* lines of a response body

(* Program constants *)

PrefixLen == 16               \* apiKey.slice(0, 16)
SafetyMarginMs == 300000      \* Date.now() + 300_000
DataPrefixLen == 5            \* line.slice(5)

TickMs == 2 * 60 * 1000       \* granularity of the modelled clock
MaxNow == MaxTicks * TickMs

Procs == {1, 2}

----------------------------------------------------------------------------
(* Values *)

Undefined == <<"undefined">>          \* undefined / null (no string has this shape)
EmptyStr == <<>>

Str(n, c) == [i \in 1..n |-> c]

\* Three credentials: KeyA and KeyB agree on their first 16 characters.
KeyA == Str(16, "k") \o <<"A">>
KeyB == Str(16, "k") \o <<"B">>
KeyC == Str(16, "c") \o <<"C">>
Credentials == {KeyA, KeyB, KeyC}

ProjectId == <<"p">>

\* expires_in values (seconds) the identity endpoint answers with
ExpiresInChoices == {420, 540}

NoToken == [cred |-> Undefined, serial |-> 0]

Min(a, b) == IF a < b THEN a ELSE b

\* JavaScript truthiness of a string-or-undefined value
Falsy(s) == s = Undefined \/ s = EmptyStr

\* a ?? b
Nullish(a, b) == IF a # Undefined THEN a ELSE b

\* s.slice(n), n >= 0
Slice(s, n) == IF n >= Len(s) THEN <<>> ELSE SubSeq(s, n + 1, Len(s))

\* s.slice(0, n)
SliceTo(s, n) == SubSeq(s, 1, Min(n, Len(s)))

\* s.startsWith(p)
StartsWith(s, p) == Len(s) >= Len(p) /\ SubSeq(s, 1, Len(p)) = p

WhiteSpace == {" ", "\r", "\t"}

RECURSIVE TrimStart(_)
TrimStart(s) ==
    IF s # <<>> /\ Head(s) \in WhiteSpace THEN TrimStart(Tail(s)) ELSE s

RECURSIVE TrimEnd(_)
TrimEnd(s) ==
    IF s # <<>> /\ s[Len(s)] \in WhiteSpace
    THEN TrimEnd(SubSeq(s, 1, Len(s) - 1)) ELSE s

\* s.trim()
Trim(s) == TrimEnd(TrimStart(s))

\* s.split("\n"): always at least one segment
RECURSIVE Split(_)
Split(s) ==
    IF \A i \in 1..Len(s) : s[i] # "\n" THEN <<s>>
    ELSE LET i == CHOOSE j \in 1..Len(s) :
                      s[j] = "\n" /\ \A k \in 1..(j - 1) : s[k] # "\n"
         IN <<SubSeq(s, 1, i - 1)>> \o Split(Slice(s, i))

RECURSIVE Concat(_)
Concat(ss) == IF ss = <<>> THEN <<>> ELSE Head(ss) \o Concat(Tail(ss))

----------------------------------------------------------------------------
(* JSON.parse of a frame, in a short wire notation.                        *)
(*                                                                         *)
(*   { g<letters> i<digit> o<digit> }     each of the three parts optional *)
(*                                                                         *)
(* stands for {"results":[{"generated_text":"<letters>",                   *)
(* "input_token_count":<digit>,"generated_token_count":<digit>}]}, and the *)
(* single character n for the JSON text null.  Everything else is a        *)
(* SyntaxError.                                                            *)

Letters == {"a", "b"}
Digits == {"0", "1", "2"}
DigitVal(c) == CASE c = "0" -> 0 [] c = "1" -> 1 [] c = "2" -> 2
DigitChar(n) == CASE n = 0 -> "0" [] n = 1 -> "1" [] n = 2 -> "2"

NoCount == 0 - 1     \* the field is absent (undefined)

RECURSIVE RunLen(_, _)
RunLen(s, S) ==
    IF s # <<>> /\ Head(s) \in S THEN 1 + RunLen(Tail(s), S) ELSE 0

SyntaxError == [kind |-> "SyntaxError"]
JsonNull == [kind |-> "null"]

JSONparse(data) ==
    IF data = <<"n">> THEN JsonNull
    ELSE IF Len(data) < 2 \/ data[1] # "{" \/ data[Len(data)] # "}"
    THEN SyntaxError
    ELSE LET inner == SubSeq(data, 2, Len(data) - 1)
             hasG == inner # <<>> /\ inner[1] = "g"
             gl == IF hasG THEN RunLen(Tail(inner), Letters) ELSE 0
             r1 == IF hasG THEN Slice(inner, 1 + gl) ELSE inner
             hasI == Len(r1) >= 2 /\ r1[1] = "i" /\ r1[2] \in Digits
             r2 == IF hasI THEN Slice(r1, 2) ELSE r1
             hasO == Len(r2) >= 2 /\ r2[1] = "o" /\ r2[2] \in Digits
             r3 == IF hasO THEN Slice(r2, 2) ELSE r2
         IN IF r3 # <<>> THEN SyntaxError
            ELSE [kind |-> "object",
                  generated_text |->
                      IF hasG THEN SubSeq(inner, 2, 1 + gl) ELSE Undefined,
                  input_token_count |->
                      IF hasI THEN DigitVal(r1[2]) ELSE NoCount,
                  generated_token_count |->
                      IF hasO THEN DigitVal(r2[2]) ELSE NoCount]

\* What the server writes for a frame (JSON.stringify on its side)
JSONstringify(text, inCount, outCount) ==
    <<"{">>
    \o (IF text # Undefined THEN <<"g">> \o text ELSE <<>>)
    \o (IF inCount # NoCount THEN <<"i", DigitChar(inCount)>> ELSE <<>>)
    \o (IF outCount # NoCount THEN <<"o", DigitChar(outCount)>> ELSE <<>>)
    \o <<"}">>

DataPrefix == <<"d", "a", "t", "a", ":">>
DoneSentinel == <<"[", "D", "O", "N", "E", "]">>

----------------------------------------------------------------------------
(* The read loop's handling of one line (streamWatsonx, lines 223-277).    *)
(* st holds what the loop body reads and writes: fullText, startedText,    *)
(* output, events (what stream.push received), and thrown (the exception   *)
(* leaving the loop body, "" when none).                                   *)

contentIndex == 0

Push(events, e) == Append(events, e)

\* Re-emission of the whole cumulative text
NewTextWhole(fullText, generated_text) == generated_text

\* result.generated_text.slice(fullText.length)
NewText(fullText, generated_text) == Slice(generated_text, Len(fullText))

\* The text channel opened at every delta: no  if (!startedText)
OpenTextEachDelta(st) ==
    [st EXCEPT
        !.startedText = TRUE,
        !.output.content =
            Append(st.output.content, [type |-> "text", text |-> <<>>]),
        !.events = Push(st.events,
            [type |-> "text_start", contentIndex |-> contentIndex])]

\* lines 244-252: open the text channel on the first text
OpenText(st) ==
    IF st.startedText THEN st
    ELSE [st EXCEPT
            !.startedText = TRUE,
            !.output.content =
                Append(st.output.content, [type |-> "text", text |-> <<>>]),
            !.events = Push(st.events,
                [type |-> "text_start", contentIndex |-> contentIndex])]

\* lines 254-264: record the new full text, emit the delta
EmitDelta(st, generated_text, newText) ==
    [st EXCEPT
        !.fullText = generated_text,
        !.output.content[contentIndex + 1].text = generated_text,
        !.events = Push(st.events,
            [type |-> "text_delta", contentIndex |-> contentIndex,
             delta |-> newText])]

\* The full text is recorded outside the  if (newText)
OnGeneratedTextNoClamp(st, result) ==
    IF Falsy(result.generated_text) THEN st
    ELSE LET newText == NewText(st.fullText, result.generated_text)
         IN IF newText = <<>>
            THEN [st EXCEPT !.fullText = result.generated_text]
            ELSE EmitDelta(OpenText(st), result.generated_text, newText)

\* lines 240-266
OnGeneratedText(st, result) ==
    IF Falsy(result.generated_text) THEN st
    ELSE LET newText == NewText(st.fullText, result.generated_text)
         IN IF newText = <<>> THEN st
            ELSE EmitDelta(OpenText(st), result.generated_text, newText)

\* if (count) ...: undefined and 0 are both falsy
TruthyCount(n) == n # NoCount /\ n # 0

\* lines 268-273
OnUsage(st, result) ==
    LET u == st.output.usage
        u1 == IF TruthyCount(result.input_token_count)
              THEN [u EXCEPT !.input = result.input_token_count] ELSE u
        u2 == IF TruthyCount(result.generated_token_count)
              THEN [u1 EXCEPT !.output = result.generated_token_count] ELSE u1
    IN [st EXCEPT !.output.usage = u2]

\* No inner catch: the parse failure leaves the loop
OnParseErrorThrows(st) == [st EXCEPT !.thrown = "SyntaxError"]

\* lines 274-276: catch { /* Skip malformed JSON */ }
OnParseError(st) == st

\* lines 229-276: the try block.  JSON.parse throws a SyntaxError; a parsed
\* null makes parsed.results throw a TypeError; both land in the catch.
OnData(st, data) ==
    LET parsed == JSONparse(data)
    IN IF parsed.kind # "object" THEN OnParseError(st)
       ELSE OnUsage(OnGeneratedText(st, parsed), parsed)

\* lines 224-277: one iteration of  for (const line of lines)
ProcessLine(st, line) ==
    IF ~StartsWith(line, DataPrefix) THEN st
    ELSE LET data == Trim(Slice(line, DataPrefixLen))
         IN IF data = DoneSentinel THEN st ELSE OnData(st, data)

\* lines 223-277: the for loop; an exception leaves it
RECURSIVE ProcessLines(_, _)
ProcessLines(st, lines) ==
    IF lines = <<>> \/ st.thrown # "" THEN st
    ELSE ProcessLines(ProcessLine(st, Head(lines)), Tail(lines))

\* The last segment is not kept for the next read
SplitBufferNoCarry(buffer, chunk) ==
    LET segs == Split(buffer \o chunk)
    IN [lines |-> SubSeq(segs, 1, Len(segs) - 1), buffer |-> <<>>]

\* lines 219-221: append the chunk, split, keep the last segment
SplitBuffer(buffer, chunk) ==
    LET segs == Split(buffer \o chunk)
    IN [lines |-> SubSeq(segs, 1, Len(segs) - 1), buffer |-> segs[Len(segs)]]

----------------------------------------------------------------------------
(* buildWatsonxPrompt (lines 86-118).  A context is [systemPrompt,         *)
(* messages]; the content of a message is [kind |-> "string", value] or    *)
(* [kind |-> "blocks", blocks], a block [type, text].                      *)

MaxMessages == 2        \* messages of a context

SystemOpen == <<"<", "|", "s", "y", "s", "t", "e", "m", "|", ">">>
UserOpen == <<"<", "|", "u", "s", "e", "r", "|", ">">>
AssistantOpen ==
    <<"<", "|", "a", "s", "s", "i", "s", "t", "a", "n", "t", "|", ">">>
EndMarker == <<"<", "|", "e", "n", "d", "|", ">">>
NL == <<"\n">>

StringContent(s) == [kind |-> "string", value |-> s]
BlocksContent(bs) == [kind |-> "blocks", blocks |-> bs]
TextBlock(s) == [type |-> "text", text |-> s]
ImageBlock == [type |-> "image", text |-> Undefined]

\* ss.join(sep)
RECURSIVE Join(_, _)
Join(ss, sep) ==
    IF ss = <<>> THEN <<>>
    ELSE IF Len(ss) = 1 THEN ss[1]
    ELSE ss[1] \o sep \o Join(Tail(ss), sep)

\* `${open}\n${content}\n<|end|>`
Segment(open, content) == open \o NL \o content \o NL \o EndMarker

\* .filter((c) => c.type === "text").map((c) => c.text).join("\n")
JoinTextBlocks(blocks) ==
    LET IsTextBlock(c) == c.type = "text"
        tb == SelectSeq(blocks, IsTextBlock)
    IN Join([i \in 1..Len(tb) |-> tb[i].text], NL)

\* lines 95-113: one iteration of  for (const msg of context.messages) ;
\* b is [parts, thrown].  A string has no filter method: calling it on the
\* content of an assistant message that is a string throws a TypeError.
RenderMessage(b, msg) ==
    IF msg.role = "user"
    THEN LET content == IF msg.content.kind = "string"
                        THEN msg.content.value
                        ELSE JoinTextBlocks(msg.content.blocks)
         IN [b EXCEPT !.parts = Append(b.parts, Segment(UserOpen, content))]
    ELSE IF msg.role = "assistant"
    THEN IF msg.content.kind = "string"
         THEN [b EXCEPT !.thrown = "TypeError"]
         ELSE [b EXCEPT !.parts = Append(b.parts,
                    Segment(AssistantOpen,
                            JoinTextBlocks(msg.content.blocks)))]
    ELSE b

RECURSIVE RenderMessages(_, _)
RenderMessages(b, messages) ==
    IF messages = <<>> \/ b.thrown # "" THEN b
    ELSE RenderMessages(RenderMessage(b, Head(messages)), Tail(messages))

\* lines 86-118; the result is [prompt, thrown]
buildWatsonxPrompt(context) ==
    LET parts0 == IF context.systemPrompt # Undefined
                     /\ Trim(context.systemPrompt) # <<>>
                  THEN <<Segment(SystemOpen, context.systemPrompt)>>
                  ELSE <<>>
        b == RenderMessages([parts |-> parts0, thrown |-> ""],
                            context.messages)
    IN IF b.thrown # "" THEN [prompt |-> Undefined, thrown |-> b.thrown]
       ELSE [prompt |-> Join(Append(b.parts, AssistantOpen \o NL), NL),
             thrown |-> ""]

\* The context of the invocations whose prompt is not examined
DefaultContext ==
    [systemPrompt |-> Undefined,
     messages |-> <<[role |-> "user", content |-> StringContent(<<"h">>)]>>]

----------------------------------------------------------------------------
(* One invocation of streamWatsonx *)

\* lines 128-147 and 209-211: the stream, the output message, the locals
NewInvocation ==
    [pc |-> "idle",
     context |-> DefaultContext,
     prompt |-> Undefined,         \* buildWatsonxPrompt(context), once built
     apiKey |-> Undefined, projectId |-> Undefined,
     signal |-> "none",            \* options.signal: none | armed | aborted
     token |-> NoToken,
     iamCalls |-> 0,               \* fetch(IAM_TOKEN_URL) calls made
     genCalls |-> 0,               \* fetch(url) calls made
     ioCompleted |-> 0,            \* fetches that have answered
     body |-> <<>>, pos |-> 0,     \* response body, and how much was read
     readerHeld |-> FALSE,
     buffer |-> <<>>, fullText |-> <<>>, startedText |-> FALSE,
     output |-> [content |-> <<>>,
                 usage |-> [input |-> 0, output |-> 0, totalTokens |-> 0],
                 stopReason |-> "stop",
                 errorMessage |-> ""],
     events |-> <<>>,
     thrown |-> ""]

\* options.signal is not handed to fetch
NeverAborted(r) == FALSE

\* A failed generation request is sent a second time before giving up
ThrowAfterRetry(r, msg) ==
    IF r.pc = "gen_fetch" /\ r.genCalls < 2
    THEN [r EXCEPT !.genCalls = @ + 1]
    ELSE [r EXCEPT !.pc = "catch", !.thrown = msg]

Throw(r, msg) == [r EXCEPT !.pc = "catch", !.thrown = msg]

Aborted(r) == r.signal = "aborted"

\* What a rejected fetch or read throws
Rejection(r) == IF Aborted(r) THEN "AbortError" ELSE "fetch failed"

\* getIamToken line 50
CacheKey(apiKey) == SliceTo(apiKey, PrefixLen)

\* The validity test without the 5 minute buffer
CacheValidNoMargin(cache, key, t) ==
    key \in DOMAIN cache /\ cache[key].expiresAt > t

\* getIamToken line 54: cached && cached.expiresAt > Date.now() + 300_000
CacheValid(cache, key, t) ==
    key \in DOMAIN cache /\ cache[key].expiresAt > t + SafetyMarginMs

\* getIamToken line 77
ExpiresAt(t, expires_in) == t + expires_in * 1000

\* An existing entry is mutated in place: its token field only
MapSetInPlace(cache, key, entry) ==
    [k \in DOMAIN cache \cup {key} |->
        IF k # key THEN cache[k]
        ELSE IF key \in DOMAIN cache
             THEN [cache[key] EXCEPT !.token = entry.token]
             ELSE entry]

\* tokenCache.set(cacheKey, entry)
MapSet(cache, key, entry) ==
    [k \in DOMAIN cache \cup {key} |-> IF k = key THEN entry ELSE cache[k]]

\* Only the API key is checked
ConfigErrorKeyOnly(apiKey, projectId) ==
    IF Falsy(apiKey) THEN "Watsonx API key required" ELSE ""

\* lines 151-161: the message of the configuration error, "" when none
ConfigError(apiKey, projectId) ==
    IF Falsy(apiKey) THEN "Watsonx API key required"
    ELSE IF Falsy(projectId) THEN "Watsonx project ID required"
    ELSE ""

\* lines 151-164 and getIamToken lines 50-58: the call, up to its first
\* await.  optKey/optProj are options.apiKey/options.projectId, envKey and
\* envProj the environment's values.
CallStreamWatsonx(p, context, optKey, envKey, optProj, envProj, sig) ==
    /\ inv[p].pc \in {"idle", "finished"}
    /\ started < MaxInvocations
    /\ started' = started + 1
    /\ LET r == [NewInvocation EXCEPT
                    !.context = context,
                    !.apiKey = Nullish(optKey, envKey),
                    !.projectId = Nullish(optProj, envProj),
                    !.signal = sig]
           key == CacheKey(r.apiKey)
       IN inv' = [inv EXCEPT ![p] =
            IF ConfigError(r.apiKey, r.projectId) # ""
            THEN Throw(r, ConfigError(r.apiKey, r.projectId))
            ELSE IF CacheValid(tokenCache, key, now)
            THEN [r EXCEPT !.pc = "token", !.token = tokenCache[key].token]
            ELSE [r EXCEPT !.pc = "iam_fetch", !.iamCalls = r.iamCalls + 1]]
    /\ UNCHANGED <<tokenCache, now, issued>>

\* getIamToken lines 58-69: the fetch rejects (transport failure or abort)
IamFetchReject(p) ==
    /\ inv[p].pc = "iam_fetch"
    /\ inv' = [inv EXCEPT ![p] = Throw(inv[p], Rejection(inv[p]))]
    /\ UNCHANGED <<tokenCache, now, issued, started>>

\* A failed exchange evicts the entry of the credential
IamResponseNotOkEvict(p) ==
    /\ inv[p].pc = "iam_fetch"
    /\ ~Aborted(inv[p])
    /\ inv' = [inv EXCEPT ![p] =
            Throw([inv[p] EXCEPT !.ioCompleted = @ + 1],
                  "IBM IAM token exchange failed")]
    /\ tokenCache' = [k \in DOMAIN tokenCache \ {CacheKey(inv[p].apiKey)} |->
                        tokenCache[k]]
    /\ UNCHANGED <<now, issued, started>>

\* getIamToken lines 71-74: a response with a non-success status
IamResponseNotOk(p) ==
    /\ inv[p].pc = "iam_fetch"
    /\ ~Aborted(inv[p])
    /\ inv' = [inv EXCEPT ![p] =
            Throw([inv[p] EXCEPT !.ioCompleted = @ + 1],
                  "IBM IAM token exchange failed")]
    /\ UNCHANGED <<tokenCache, now, issued, started>>

\* getIamToken line 71: a success status; the body is still to be read
IamResponseOk(p) ==
    /\ inv[p].pc = "iam_fetch"
    /\ ~Aborted(inv[p])
    /\ inv' = [inv EXCEPT ![p].pc = "iam_json", ![p].ioCompleted = @ + 1]
    /\ UNCHANGED <<tokenCache, now, issued, started>>

\* getIamToken line 76: response.json() rejects
IamJsonReject(p) ==
    /\ inv[p].pc = "iam_json"
    /\ inv' = [inv EXCEPT ![p] = Throw(inv[p], Rejection(inv[p]))]
    /\ UNCHANGED <<tokenCache, now, issued, started>>

\* getIamToken lines 76-80: the token arrives, is cached and returned
IamJsonOk(p, expires_in) ==
    /\ inv[p].pc = "iam_json"
    /\ ~Aborted(inv[p])
    /\ LET access_token == [cred |-> inv[p].apiKey, serial |-> issued + 1]
       IN /\ issued' = issued + 1
          /\ tokenCache' = MapSet(tokenCache, CacheKey(inv[p].apiKey),
                [token |-> access_token,
                 expiresAt |-> ExpiresAt(now, expires_in)])
          /\ inv' = [inv EXCEPT ![p].pc = "token", ![p].token = access_token]
    /\ UNCHANGED <<now, started>>

\* lines 166-192: build the prompt and the request, and send it; an
\* exception of the prompt builder lands in the catch of the task
SendGeneration(p) ==
    /\ inv[p].pc = "token"
    /\ LET built == buildWatsonxPrompt(inv[p].context)
       IN inv' = [inv EXCEPT ![p] =
            IF built.thrown # "" THEN Throw(inv[p], built.thrown)
            ELSE [inv[p] EXCEPT !.prompt = built.prompt,
                                !.pc = "gen_fetch",
                                !.genCalls = @ + 1]]
    /\ UNCHANGED <<tokenCache, now, issued, started>>

\* line 182: the fetch rejects (transport failure or abort)
GenFetchReject(p) ==
    /\ inv[p].pc = "gen_fetch"
    /\ inv' = [inv EXCEPT ![p] = Throw(inv[p], Rejection(inv[p]))]
    /\ UNCHANGED <<tokenCache, now, issued, started>>

\* lines 194-197
GenResponseNotOk(p) ==
    /\ inv[p].pc = "gen_fetch"
    /\ ~Aborted(inv[p])
    /\ inv' = [inv EXCEPT ![p] =
            Throw([inv[p] EXCEPT !.ioCompleted = @ + 1], "Watsonx API error")]
    /\ UNCHANGED <<tokenCache, now, issued, started>>

\* lines 199-201
GenResponseNoBody(p) ==
    /\ inv[p].pc = "gen_fetch"
    /\ ~Aborted(inv[p])
    /\ inv' = [inv EXCEPT ![p] =
            Throw([inv[p] EXCEPT !.ioCompleted = @ + 1],
                  "Watsonx response body is null")]
    /\ UNCHANGED <<tokenCache, now, issued, started>>

\* start pushed a second time
EmitStartTwice(r) ==
    [r EXCEPT !.events = Push(Push(r.events, [type |-> "start"]),
                              [type |-> "start"])]

\* line 204
EmitStart(r) == [r EXCEPT !.events = Push(r.events, [type |-> "start"])]

\* lines 194-211: a success status with a body b; start is pushed and the
\* reader acquired
GenResponseOk(p, b) ==
    /\ inv[p].pc = "gen_fetch"
    /\ ~Aborted(inv[p])
    /\ inv' = [inv EXCEPT ![p] =
            [EmitStart([inv[p] EXCEPT !.ioCompleted = @ + 1]) EXCEPT
                !.pc = "read", !.body = b, !.pos = 0, !.readerHeld = TRUE,
                !.buffer = <<>>, !.fullText = <<>>, !.startedText = FALSE]]
    /\ UNCHANGED <<tokenCache, now, issued, started>>

\* lines 216-278: reader.read() gives the next n characters of the body
ReadChunk(p, n) ==
    /\ inv[p].pc = "read"
    /\ ~Aborted(inv[p])
    /\ n \in 1..(Len(inv[p].body) - inv[p].pos)
    /\ LET r == inv[p]
           sp == SplitBuffer(r.buffer, SubSeq(r.body, r.pos + 1, r.pos + n))
           r1 == ProcessLines([r EXCEPT !.buffer = sp.buffer,
                                        !.pos = r.pos + n], sp.lines)
       IN inv' = [inv EXCEPT ![p] =
            IF r1.thrown # "" THEN [r1 EXCEPT !.pc = "finally"] ELSE r1]
    /\ UNCHANGED <<tokenCache, now, issued, started>>

\* What is left in the buffer is handled as a last line when the body ends
ReadDoneFlush(p) ==
    /\ inv[p].pc = "read"
    /\ ~Aborted(inv[p])
    /\ inv[p].pos = Len(inv[p].body)
    /\ inv' = [inv EXCEPT ![p] =
            [ProcessLine(inv[p], inv[p].buffer) EXCEPT
                !.pc = "finally", !.buffer = <<>>]]
    /\ UNCHANGED <<tokenCache, now, issued, started>>

\* lines 216-217: the body has ended
ReadDone(p) ==
    /\ inv[p].pc = "read"
    /\ ~Aborted(inv[p])
    /\ inv[p].pos = Len(inv[p].body)
    /\ inv' = [inv EXCEPT ![p].pc = "finally"]
    /\ UNCHANGED <<tokenCache, now, issued, started>>

\* line 216: reader.read() rejects (transport failure or abort)
ReadReject(p) ==
    /\ inv[p].pc = "read"
    /\ inv' = [inv EXCEPT ![p].pc = "finally",
                          ![p].thrown = Rejection(inv[p])]
    /\ UNCHANGED <<tokenCache, now, issued, started>>

\* The release placed after the loop instead of in a finally: an exception
\* skips it
ReleaseLockNoFinally(p) ==
    /\ inv[p].pc = "finally"
    /\ inv' = [inv EXCEPT
            ![p].readerHeld = IF inv[p].thrown = "" THEN FALSE ELSE @,
            ![p].pc = IF inv[p].thrown = "" THEN "finalize" ELSE "catch"]
    /\ UNCHANGED <<tokenCache, now, issued, started>>

\* lines 279-281: finally { reader.releaseLock() }
ReleaseLock(p) ==
    /\ inv[p].pc = "finally"
    /\ inv' = [inv EXCEPT ![p].readerHeld = FALSE,
            ![p].pc = IF inv[p].thrown = "" THEN "finalize" ELSE "catch"]
    /\ UNCHANGED <<tokenCache, now, issued, started>>

\* text_end pushed whether or not there was text
EmitTextEndAlways(r) ==
    [r EXCEPT !.events = Push(r.events,
        [type |-> "text_end", contentIndex |-> contentIndex,
         content |-> r.fullText])]

\* lines 296-304: text_end if we had text
EmitTextEnd(r) ==
    IF r.startedText
    THEN [r EXCEPT !.events = Push(r.events,
            [type |-> "text_end", contentIndex |-> contentIndex,
             content |-> r.fullText])]
    ELSE r

\* lines 306-311
EmitDone(r) ==
    [r EXCEPT !.events = Push(r.events, [type |-> "done", reason |-> "stop"])]

\* lines 283-311: final usage, text_end, done
Finalize(p) ==
    /\ inv[p].pc = "finalize"
    /\ LET r == inv[p]
           r1 == [r EXCEPT !.output.usage.totalTokens =
                        r.output.usage.input + r.output.usage.output]
       IN inv' = [inv EXCEPT ![p] =
                    [EmitDone(EmitTextEnd(r1)) EXCEPT !.pc = "finished"]]
    /\ UNCHANGED <<tokenCache, now, issued, started>>

\* A catch that records the failure and pushes no event
OnErrorSilent(r) ==
    [r EXCEPT !.output.stopReason = "error",
              !.output.errorMessage = r.thrown,
              !.pc = "finished"]

\* lines 312-320: the catch of the whole task
OnError(r) ==
    [r EXCEPT !.output.stopReason = "error",
              !.output.errorMessage = r.thrown,
              !.events = Push(r.events, [type |-> "error", reason |-> "error"]),
              !.pc = "finished"]

CatchError(p) ==
    /\ inv[p].pc = "catch"
    /\ inv' = [inv EXCEPT ![p] = OnError(inv[p])]
    /\ UNCHANGED <<tokenCache, now, issued, started>>

\* options.signal fires while the task runs
Abort(p) ==
    /\ inv[p].signal = "armed"
    /\ inv[p].pc \notin {"idle", "finished"}
    /\ inv' = [inv EXCEPT ![p].signal = "aborted"]
    /\ UNCHANGED <<tokenCache, now, issued, started>>

\* Date.now() advances
Tick ==
    /\ now < MaxNow
    /\ now' = now + TickMs
    /\ UNCHANGED <<tokenCache, issued, started, inv>>

----------------------------------------------------------------------------
(* Response bodies the generation endpoint may send *)

DataLine(payload) == DataPrefix \o <<" ">> \o payload

\* A frame that carries generated text only
TextFrame(text) == DataLine(JSONstringify(text, NoCount, NoCount))

\* Lines with a newline after each
Terminated(ls) == Concat([i \in 1..Len(ls) |-> ls[i] \o <<"\n">>])

\* All bodies of at most n lines taken from L; the last line may lack its
\* newline
BodiesOf(L, n) ==
    LET seqs == UNION {[1..k -> L] : k \in 0..n}
    IN {Terminated(ls) : ls \in seqs}
       \cup {SubSeq(Terminated(ls), 1, Len(Terminated(ls)) - 1) :
                ls \in seqs \ {<<>>}}

StreamLines ==
    {TextFrame(<<"a">>),
     TextFrame(<<"a", "b">>),
     DataLine(JSONstringify(<<"b", "b">>, 1, 2)),
     DataPrefix \o JSONstringify(<<"a", "b", "a">>, 2, 1),      \* no space
     DataLine(JSONstringify(<<>>, 0, 0)) \o <<"\r">>,           \* CRLF
     DataLine(<<"{", "g", "a">>),                               \* cut short
     DataLine(DoneSentinel),
     <<>>}                                                      \* blank line

StreamBodies == BodiesOf(StreamLines, MaxLines)

SmallBodies ==
    {<<>>,
     Terminated(<<TextFrame(<<"a">>)>>),
     Terminated(<<DataLine(JSONstringify(Undefined, 1, 0))>>)}

----------------------------------------------------------------------------
(* Specifications *)

Init ==
    /\ tokenCache = <<>>
    /\ now = 0
    /\ issued = 0
    /\ started = 0
    /\ inv = [p \in Procs |-> NewInvocation]

\* Every step of task p but the call
Step(p, bodies) ==
    \/ IamFetchReject(p)
    \/ IamResponseNotOk(p)
    \/ IamResponseOk(p)
    \/ IamJsonReject(p)
    \/ \E e \in ExpiresInChoices : IamJsonOk(p, e)
    \/ SendGeneration(p)
    \/ GenFetchReject(p)
    \/ GenResponseNotOk(p)
    \/ GenResponseNoBody(p)
    \/ \E b \in bodies : GenResponseOk(p, b)
    \/ \E n \in 1..Len(inv[p].body) : ReadChunk(p, n)
    \/ ReadDone(p)
    \/ ReadReject(p)
    \/ ReleaseLock(p)
    \/ Finalize(p)
    \/ CatchError(p)

\* Successive invocations by one caller, any options, the clock running
Next ==
    \/ \E optKey \in {Undefined, EmptyStr, KeyA},
          envKey \in {Undefined, KeyA},
          optProj \in {Undefined, EmptyStr, ProjectId},
          envProj \in {Undefined, ProjectId},
          sig \in {"none", "armed"} :
            CallStreamWatsonx(1, DefaultContext,
                              optKey, envKey, optProj, envProj, sig)
    \/ Step(1, SmallBodies)
    \/ Abort(1)
    \/ Tick

Spec == Init /\ [][Next]_vars

\* One invocation with a valid configuration and no signal, over every body
InitStream ==
    /\ tokenCache = <<>>
    /\ now = 0
    /\ issued = 0
    /\ started = MaxInvocations - 1
    /\ inv = [p \in Procs |-> NewInvocation]

NextStream ==
    \/ CallStreamWatsonx(1, DefaultContext,
                         KeyA, Undefined, ProjectId, Undefined, "none")
    \/ Step(1, StreamBodies)

SpecStream == InitStream /\ [][NextStream]_vars

\* One body of one frame
ConcBodies == {Terminated(<<TextFrame(<<"a">>)>>)}

\* Two concurrent tasks with the same credential: their steps interleave at
\* the await points
NextConc ==
    \/ \E p \in Procs :
            \/ CallStreamWatsonx(p, DefaultContext,
                                 KeyA, Undefined, ProjectId, Undefined, "none")
            \/ Step(p, ConcBodies)
    \/ Tick

\* Two invocations are left to start
InitConc ==
    /\ tokenCache = <<>>
    /\ now = 0
    /\ issued = 0
    /\ started = MaxInvocations - 2
    /\ inv = [p \in Procs |-> NewInvocation]

SpecConc == InitConc /\ [][NextConc]_vars

\* Contexts: any system prompt, up to MaxMessages messages of any role and
\* content
SystemPrompts == {Undefined, <<>>, <<" ">>, <<"s">>}

Contents ==
    {StringContent(<<"h">>),
     BlocksContent(<<>>),
     BlocksContent(<<TextBlock(<<"a">>), ImageBlock, TextBlock(<<"b">>)>>)}

Messages == [role : {"user", "assistant", "toolResult"}, content : Contents]

Contexts ==
    [systemPrompt : SystemPrompts,
     messages : UNION {[1..n -> Messages] : n \in 0..MaxMessages}]

\* One invocation with a valid configuration, over every context
NextPrompt ==
    \/ \E context \in Contexts :
            CallStreamWatsonx(1, context,
                              KeyA, Undefined, ProjectId, Undefined, "none")
    \/ Step(1, ConcBodies)

SpecPrompt == InitStream /\ [][NextPrompt]_vars

\* Successive invocations by callers with different credentials
NextKeys ==
    \/ \E apiKey \in Credentials :
            CallStreamWatsonx(1, DefaultContext,
                              apiKey, Undefined, ProjectId, Undefined, "none")
    \/ Step(1, ConcBodies)

SpecKeys == Init /\ [][NextKeys]_vars

----------------------------------------------------------------------------
(* Vocabulary of the properties *)

Terminal == {"done", "error"}

\* Positions of the events of the given types
Idx(ev, T) == {i \in 1..Len(ev) : ev[i].type \in T}

LastType(ev) == IF ev = <<>> THEN "none" ELSE ev[Len(ev)].type

IsTextDelta(e) == e.type = "text_delta"

\* The delta values of the text_delta events, concatenated in emission order
DeltaText(ev) ==
    LET ds == SelectSeq(ev, IsTextDelta)
    IN Concat([i \in 1..Len(ds) |-> ds[i].delta])

IsPrefix(s, t) == Len(s) <= Len(t) /\ SubSeq(t, 1, Len(s)) = s

\* The generated_text a line carries as a frame; Undefined when the line is
\* no data line, is the sentinel, does not parse, or has no such field
FrameText(line) ==
    IF ~StartsWith(line, DataPrefix) THEN Undefined
    ELSE LET data == Trim(Slice(line, DataPrefixLen))
         IN IF data = DoneSentinel \/ JSONparse(data).kind # "object"
            THEN Undefined
            ELSE JSONparse(data).generated_text

IsText(t) == t # Undefined

\* The generated_text values of the frames of a body, in order
FrameTexts(body) ==
    LET ls == Split(body)
    IN SelectSeq([i \in 1..Len(ls) |-> FrameText(ls[i])], IsText)

\* Each text extends the one before it
Monotone(texts) ==
    \A i \in 2..Len(texts) : IsPrefix(texts[i - 1], texts[i])

\* The invocation has some step to take
CanStep(p) ==
    \/ ENABLED IamFetchReject(p)
    \/ ENABLED IamJsonReject(p)
    \/ ENABLED SendGeneration(p)
    \/ ENABLED GenFetchReject(p)
    \/ ENABLED ReadReject(p)
    \/ ENABLED ReleaseLock(p)
    \/ ENABLED Finalize(p)
    \/ ENABLED CatchError(p)

----------------------------------------------------------------------------
(* C1: for every invocation of streamWatsonx, whatever stage fails or      *)
(* succeeds, the channel receives exactly one terminal event (done or      *)
(* error, never both) and nothing is pushed after it: at every moment at   *)
(* most one terminal event has been pushed and it is the last event; the   *)
(* task has ended exactly when it has pushed one; and a task that has not  *)
(* ended always has a step to take, so it cannot end without one.          *)
C1_OneTerminalEventLast ==
    \A p \in Procs :
        LET r == inv[p]
            ev == r.events
        IN /\ Cardinality(Idx(ev, Terminal)) <= 1
           /\ \A i \in Idx(ev, Terminal) : i = Len(ev)
           /\ (r.pc = "finished") = (Cardinality(Idx(ev, Terminal)) = 1)
           /\ r.pc \notin {"idle", "finished"} => CanStep(p)

\* An invocation that failed in the middle of the body: deltas, then error
C1_Witness ==
    /\ inv[1].pc = "finished"
    /\ LastType(inv[1].events) = "error"
    /\ Idx(inv[1].events, {"text_delta"}) # {}

----------------------------------------------------------------------------
(* C2: for every body whose frames carry monotonically non-decreasing      *)
(* cumulative text (each generated_text has the previous one as a prefix)  *)
(* and that ends normally, the text_delta values concatenated in emission  *)
(* order equal the content of the text_end event.                          *)
C2_DeltasEqualTextEnd ==
    \A p \in Procs :
        LET r == inv[p]
            ev == r.events
        IN Monotone(FrameTexts(r.body)) =>
              \A i \in Idx(ev, {"text_end"}) : DeltaText(ev) = ev[i].content

\* Two growing frames, "a" then "ab", read to the end
C2_Witness ==
    /\ LastType(inv[1].events) = "done"
    /\ Monotone(FrameTexts(inv[1].body))
    /\ Cardinality(Idx(inv[1].events, {"text_delta"})) = 2
    /\ \E i \in Idx(inv[1].events, {"text_end"}) :
            inv[1].events[i].content = <<"a", "b">>

(* C3: over any sequence of frames, after each frame the deltas emitted so *)
(* far, concatenated, equal the cumulative full-text state and the text of *)
(* the sole text block.                                                    *)
C3_DeltasEqualFullText ==
    \A p \in Procs :
        LET r == inv[p]
        IN /\ DeltaText(r.events) = r.fullText
           /\ r.startedText =>
                r.output.content[contentIndex + 1].text = DeltaText(r.events)

(* C4: a frame whose generated_text is no longer than the text already     *)
(* observed yields no text_delta, raises no error, and leaves the full     *)
(* text and the text block unchanged: in every state of the read loop,     *)
(* handling such a line changes none of them.                              *)
C4_ShorterFrameIgnored ==
    \A p \in Procs :
        LET r == inv[p]
        IN r.pc = "read" =>
            \A line \in StreamLines :
                (IsText(FrameText(line))
                    /\ Len(FrameText(line)) <= Len(r.fullText)) =>
                LET r2 == ProcessLine(r, line)
                IN /\ r2.events = r.events
                   /\ r2.thrown = ""
                   /\ r2.fullText = r.fullText
                   /\ r2.startedText = r.startedText
                   /\ r2.output.content = r.output.content

\* Frame "ab" then frame "a": both handled, one delta, full text still "ab"
C4_Witness ==
    /\ inv[1].pc = "read"
    /\ inv[1].pos = Len(inv[1].body)
    /\ inv[1].buffer = <<>>
    /\ FrameTexts(inv[1].body) = <<<<"a", "b">>, <<"a">>>>
    /\ Cardinality(Idx(inv[1].events, {"text_delta"})) = 1
    /\ inv[1].fullText = <<"a", "b">>

\* A data line whose payload is not valid JSON
Malformed(line) ==
    /\ StartsWith(line, DataPrefix)
    /\ Trim(Slice(line, DataPrefixLen)) # DoneSentinel
    /\ JSONparse(Trim(Slice(line, DataPrefixLen))).kind = "SyntaxError"

WellFormed(line) == ~Malformed(line)

\* The complete lines among the first pos characters of a body
CompleteLines(body, pos) ==
    LET segs == Split(SubSeq(body, 1, pos))
    IN SubSeq(segs, 1, Len(segs) - 1)

\* The loop's state had the lines read so far held no malformed line
WithoutMalformed(r) ==
    ProcessLines(EmitStart(NewInvocation),
                 SelectSeq(CompleteLines(r.body, r.pos), WellFormed))

IOFailures ==
    {"fetch failed", "AbortError", "IBM IAM token exchange failed",
     "Watsonx API error", "Watsonx response body is null"}

(* C5: a data line whose payload is not valid JSON is skipped without      *)
(* changing any state and without ending the stream: while the body is     *)
(* read, the full text, the text-opened flag, the output message and the   *)
(* events are those of the same lines with the malformed ones left out;    *)
(* no exception leaves the loop body; only an I/O failure ends an          *)
(* invocation with error, so a body that ends normally ends with done.     *)
C5_MalformedLineSkipped ==
    \A p \in Procs :
        LET r == inv[p]
        IN /\ r.pc \in {"read", "finally", "finalize"} =>
                LET ref == WithoutMalformed(r)
                IN /\ r.fullText = ref.fullText
                   /\ r.startedText = ref.startedText
                   /\ r.output = ref.output
                   /\ r.events = ref.events
           /\ r.pc = "read" => r.thrown = ""
           /\ r.thrown # "" => r.thrown \in IOFailures
           /\ (r.pc = "finished" /\ r.thrown = "") =>
                LastType(r.events) = "done"

\* A malformed line, then a valid frame that still produced its delta, done
C5_Witness ==
    /\ LastType(inv[1].events) = "done"
    /\ LET ls == CompleteLines(inv[1].body, Len(inv[1].body))
       IN /\ Len(ls) = 2
          /\ Malformed(ls[1])
          /\ FrameText(ls[2]) = <<"a", "b">>
    /\ DeltaText(inv[1].events) = <<"a", "b">>

----------------------------------------------------------------------------
\* getIamToken was called in this step (the configuration was complete)
TokenRequested(r, r2) ==
    r.pc \in {"idle", "finished"} /\ r2.pc \in {"token", "iam_fetch"}

\* The entry for key is more than 5 minutes from its expiry
Usable(cache, key, t) ==
    key \in DOMAIN cache /\ cache[key].expiresAt > t + 5 * 60 * 1000

(* C6: for any sequence of getIamToken calls on one credential: a call     *)
(* made while the cached entry has expiresAt > now + 5 minutes returns the *)
(* cached token and makes no identity-endpoint call (and leaves the cache  *)
(* as it is); a call made with no entry, or with expiresAt <= now + 5      *)
(* minutes, makes exactly one identity-endpoint call and, on success,      *)
(* overwrites the entry with the new token and expiresAt = now +           *)
(* expires_in seconds (now read when the answer arrives), and returns the  *)
(* new token.  No later step of the invocation makes another call.         *)
C6_CacheContract ==
    /\ [][\A p \in Procs :
            LET r == inv[p]
                r2 == inv'[p]
                key == SubSeq(r2.apiKey, 1, Min(16, Len(r2.apiKey)))
            IN /\ (TokenRequested(r, r2) /\ Usable(tokenCache, key, now)) =>
                    /\ r2.pc = "token"
                    /\ r2.token = tokenCache[key].token
                    /\ r2.iamCalls = 0
                    /\ tokenCache' = tokenCache
               /\ (TokenRequested(r, r2) /\ ~Usable(tokenCache, key, now)) =>
                    /\ r2.pc = "iam_fetch"
                    /\ r2.iamCalls = 1
                    /\ r2.token = NoToken
               /\ (r.pc = "iam_json" /\ r2.pc = "token") =>
                    /\ issued' = issued + 1
                    /\ r2.token = [cred |-> r.apiKey, serial |-> issued']
                    /\ DOMAIN tokenCache' = DOMAIN tokenCache \cup {key}
                    /\ \A k \in DOMAIN tokenCache \ {key} :
                            tokenCache'[k] = tokenCache[k]
                    /\ tokenCache'[key].token = r2.token
                    /\ \E e \in ExpiresInChoices :
                            tokenCache'[key].expiresAt = now + e * 1000
               /\ r.pc \notin {"idle", "finished"} => r2.iamCalls = r.iamCalls
         ]_vars
    /\ [](\A p \in Procs :
            /\ inv[p].iamCalls <= 1
            /\ inv[p].pc \in {"iam_fetch", "iam_json"} => inv[p].iamCalls = 1)

\* A third call served from the cache with the token of the second
\* exchange: the first entry had come within 5 minutes of its expiry
C6_Witness ==
    /\ inv[1].pc = "token"
    /\ inv[1].iamCalls = 0
    /\ inv[1].token.serial = 2
    /\ now > 0

(* C7, as stated: start is emitted exactly once in every invocation, is    *)
(* the first event, and is emitted before any network I/O has completed.   *)
C7_StartBeforeAnyIO ==
    \A p \in Procs :
        LET r == inv[p]
        IN (r.ioCompleted > 0 \/ r.pc = "finished") =>
            /\ Cardinality(Idx(r.events, {"start"})) = 1
            /\ r.events[1].type = "start"

(* C7, amended: start is emitted at most once, only once the token has     *)
(* been obtained and the generation request has answered with a success    *)
(* status and a body, right before the body is read; when emitted it is    *)
(* the first event.  An invocation that fails before that emits no start:  *)
(* its only event is the terminal error.                                   *)
C7_StartAfterResponse ==
    \A p \in Procs :
        LET r == inv[p]
            ev == r.events
        IN /\ Cardinality(Idx(ev, {"start"})) <= 1
           /\ \A i \in Idx(ev, {"start"}) : i = 1
           /\ r.pc \in {"idle", "iam_fetch", "iam_json", "token", "gen_fetch"}
                => ev = <<>>
           /\ r.pc \in {"read", "finally", "finalize"}
                => Idx(ev, {"start"}) = {1}
           /\ Idx(ev, {"start"}) # {} =>
                /\ r.token # NoToken
                /\ r.genCalls = 1
                /\ r.ioCompleted >= 1
           /\ (r.pc = "finished" /\ Idx(ev, {"start"}) = {}) =>
                ev = <<[type |-> "error", reason |-> "error"]>>

\* start is the only event so far, and both fetches have answered
C7_Witness ==
    /\ inv[1].pc = "read"
    /\ inv[1].events = <<[type |-> "start"]>>
    /\ inv[1].ioCompleted = 2

(* C8, as stated: whenever the invocation ends with done, exactly one      *)
(* text_end is emitted, immediately before done, with the final cumulative *)
(* text; none in an invocation that ends with error.                       *)
C8_TextEndWheneverDone ==
    \A p \in Procs :
        LET r == inv[p]
            ev == r.events
        IN /\ LastType(ev) = "done" =>
                /\ Idx(ev, {"text_end"}) = {Len(ev) - 1}
                /\ ev[Len(ev) - 1].content = r.fullText
           /\ LastType(ev) = "error" => Idx(ev, {"text_end"}) = {}

(* C8, amended: in an invocation that ends with done, text_end is emitted  *)
(* exactly once if at least one text_delta was emitted, and not at all     *)
(* otherwise; when emitted it comes after every text_delta and immediately *)
(* before done, and its content is the final cumulative text.  No text_end *)
(* is emitted in an invocation that ends with error.                       *)
C8_TextEndIffText ==
    \A p \in Procs :
        LET r == inv[p]
            ev == r.events
        IN /\ Cardinality(Idx(ev, {"text_end"})) <= 1
           /\ \A i \in Idx(ev, {"text_end"}) :
                /\ i = Len(ev) - 1
                /\ ev[Len(ev)].type = "done"
                /\ \A j \in Idx(ev, {"text_delta"}) : j < i
                /\ ev[i].content = r.fullText
                /\ r.output.content =
                        <<[type |-> "text", text |-> ev[i].content]>>
           /\ LastType(ev) = "done" =>
                (Idx(ev, {"text_end"}) # {}) = (Idx(ev, {"text_delta"}) # {})
           /\ LastType(ev) = "error" => Idx(ev, {"text_end"}) = {}

\* One delta, then text_end with the text, then done
C8_Witness ==
    /\ LastType(inv[1].events) = "done"
    /\ Len(inv[1].events) = 5
    /\ inv[1].events[3].type = "text_delta"
    /\ inv[1].events[4] =
        [type |-> "text_end", contentIndex |-> 0, content |-> <<"b", "b">>]

\* The credential or the project identifier is missing
Misconfigured(r) ==
    r.pc # "idle" /\ (r.apiKey \in {Undefined, EmptyStr}
                        \/ r.projectId \in {Undefined, EmptyStr})

(* C9: if the credential or the project identifier is missing, the         *)
(* invocation emits a terminal error event with stopReason = error and a   *)
(* non-empty errorMessage and makes no network call: no identity-endpoint  *)
(* call, no generation-endpoint call, and the token cache is unchanged.    *)
C9_ConfigErrorNoNetwork ==
    /\ [](\A p \in Procs :
            LET r == inv[p]
            IN Misconfigured(r) =>
                /\ r.iamCalls = 0 /\ r.genCalls = 0 /\ r.ioCompleted = 0
                /\ r.token = NoToken
                /\ r.pc \in {"catch", "finished"}
                /\ r.pc = "catch" => ENABLED CatchError(p)
                /\ r.pc = "finished" =>
                    /\ r.events = <<[type |-> "error", reason |-> "error"]>>
                    /\ r.output.stopReason = "error"
                    /\ r.output.errorMessage # "")
    /\ [][\A p \in Procs :
            (Misconfigured(inv'[p]) /\ inv'[p] # inv[p]) =>
                tokenCache' = tokenCache]_vars

\* The project identifier is missing, the cache holds a token and the
\* invocation has ended with its error
C9_Witness ==
    /\ inv[1].pc = "finished"
    /\ inv[1].apiKey = KeyA
    /\ inv[1].projectId = EmptyStr
    /\ inv[1].events = <<[type |-> "error", reason |-> "error"]>>
    /\ DOMAIN tokenCache # {}

InFlight == {"iam_fetch", "iam_json", "gen_fetch", "read"}

(* C10: if the cancellation signal fires while the token exchange, the     *)
(* generation request or a body read is in flight, that operation is       *)
(* aborted (its only outcome is the rejection) and the invocation ends     *)
(* with a terminal error event: it never pushes done, and it always has a  *)
(* step left until it has pushed error.                                    *)
C10_AbortEndsWithError ==
    /\ [][\A p \in Procs :
            LET r == inv[p]
                r2 == inv'[p]
            IN (r.signal = "aborted" /\ r.pc \in InFlight /\ r2 # r) =>
                /\ r2.thrown = "AbortError"
                /\ r2.pc \in {"catch", "finally"}
                /\ r2.events = r.events]_vars
    /\ [](\A p \in Procs :
            LET r == inv[p]
            IN r.thrown = "AbortError" =>
                /\ r.pc \in {"catch", "finally", "finished"}
                /\ Idx(r.events, {"done"}) = {}
                /\ r.pc # "finished" => CanStep(p)
                /\ r.pc = "finished" =>
                    /\ LastType(r.events) = "error"
                    /\ r.output.stopReason = "error"
                    /\ r.output.errorMessage = "AbortError")

\* The signal fired during a body read, after a delta had been emitted
C10_Witness ==
    /\ inv[1].pc = "finished"
    /\ inv[1].signal = "aborted"
    /\ inv[1].output.errorMessage = "AbortError"
    /\ Idx(inv[1].events, {"text_delta"}) # {}
    /\ LastType(inv[1].events) = "error"

----------------------------------------------------------------------------
\* The invocation has failed and has not pushed its error yet
Failing(r) == r.thrown # "" /\ r.pc # "finished"

(* C11: no retry at any layer.  One invocation makes at most one           *)
(* identity-endpoint call and at most one generation-endpoint call; the    *)
(* generation request is sent only once a token has been obtained (from    *)
(* the cache or from a successful exchange); and after a failure (token    *)
(* exchange, upstream status, read error) the invocation makes no further  *)
(* call and no further read: its remaining steps lead to the error event.  *)
C11_NoRetry ==
    /\ [](\A p \in Procs :
            LET r == inv[p]
            IN /\ r.iamCalls <= 1
               /\ r.genCalls <= 1
               /\ r.genCalls = 1 => r.token # NoToken
               /\ Failing(r) =>
                    /\ r.pc \in {"catch", "finally"}
                    /\ CanStep(p))
    /\ [][\A p \in Procs :
            LET r == inv[p]
                r2 == inv'[p]
            IN /\ r2.genCalls > r.genCalls =>
                    /\ r.pc = "token"
                    /\ r.token # NoToken
                    /\ r.thrown = ""
               /\ (Failing(r) /\ r2 # r) =>
                    /\ r2.iamCalls = r.iamCalls
                    /\ r2.genCalls = r.genCalls
                    /\ r2.ioCompleted = r.ioCompleted
                    /\ r2.pos = r.pos
                    /\ r2.thrown = r.thrown
                    /\ r2.pc \in {"finally", "catch", "finished"}
                    /\ r2.pc = "finished" => LastType(r2.events) = "error"
         ]_vars

\* The generation endpoint answered with a non-success status: one call to
\* each endpoint, then the error
C11_Witness ==
    /\ inv[1].pc = "finished"
    /\ inv[1].thrown = "Watsonx API error"
    /\ inv[1].iamCalls = 1
    /\ inv[1].genCalls = 1
    /\ LastType(inv[1].events) = "error"

----------------------------------------------------------------------------
\* The token of an exchange that has completed successfully
Exchanged(token) == token.serial \in 1..issued

(* C12: under any interleaving of concurrent invocations with the same     *)
(* credential the race costs redundant identity-endpoint calls only.  The  *)
(* cache holds at most one entry, under the key of the credential; the     *)
(* cache changes only in the step that completes a successful exchange,    *)
(* which replaces the entry by the {token, expiresAt} pair of that one     *)
(* exchange (last write wins, no field of the old entry survives); and     *)
(* every token a caller holds was produced by a successful exchange of     *)
(* its own credential.                                                     *)
C12_CacheRaceIntegrity ==
    /\ [](/\ DOMAIN tokenCache \subseteq {SubSeq(KeyA, 1, 16)}
          /\ \A k \in DOMAIN tokenCache :
                /\ DOMAIN tokenCache[k] = {"token", "expiresAt"}
                /\ Exchanged(tokenCache[k].token)
                /\ tokenCache[k].token.cred = KeyA
          /\ \A p \in Procs :
                inv[p].token # NoToken =>
                    /\ Exchanged(inv[p].token)
                    /\ inv[p].token.cred = inv[p].apiKey
          /\ issued <= started)
    /\ [][tokenCache' # tokenCache =>
            \E p \in Procs, e \in ExpiresInChoices :
                LET pair == [token |-> [cred |-> inv[p].apiKey,
                                        serial |-> issued + 1],
                             expiresAt |-> now + e * 1000]
                IN /\ inv[p].pc = "iam_json"
                   /\ inv'[p].pc = "token"
                   /\ inv'[p].token = pair.token
                   /\ issued' = issued + 1
                   /\ tokenCache' = [k \in {SubSeq(KeyA, 1, 16)} |-> pair]
         ]_vars

\* Both tasks missed the cache and both exchanged: task 2 finished its
\* exchange first, task 1 wrote last and its pair is the one cached
C12_Witness ==
    /\ issued = 2
    /\ inv[1].iamCalls = 1 /\ inv[2].iamCalls = 1
    /\ inv[2].token.serial = 1
    /\ inv[1].token.serial = 2
    /\ tokenCache[SubSeq(KeyA, 1, 16)].token = inv[1].token

----------------------------------------------------------------------------
\* The frame a line carries; JsonNull when the line is no data line, is the
\* sentinel, or does not parse to an object
FrameOf(line) ==
    IF ~StartsWith(line, DataPrefix) THEN JsonNull
    ELSE LET data == Trim(Slice(line, DataPrefixLen))
         IN IF data = DoneSentinel \/ JSONparse(data).kind # "object"
            THEN JsonNull
            ELSE JSONparse(data)

\* The frames of the complete lines of a body, in order
FramesOf(body) ==
    LET ls == CompleteLines(body, Len(body))
        IsFrame(f) == f.kind = "object"
    IN SelectSeq([i \in 1..Len(ls) |-> FrameOf(ls[i])], IsFrame)

\* The value of the last frame that reports the counter; 0, the initial
\* value, when no frame does
RECURSIVE LastReported(_, _)
LastReported(frames, field) ==
    IF frames = <<>> THEN 0
    ELSE IF frames[Len(frames)][field] # 0 - 1
    THEN frames[Len(frames)][field]
    ELSE LastReported(SubSeq(frames, 1, Len(frames) - 1), field)

(* C13: usage counters are overwritten, not accumulated: at the end of a   *)
(* stream that was read to its end, usage.input (resp. usage.output)       *)
(* equals the value carried by the last frame that reported an             *)
(* input-token (resp. output-token) count, for every reported value, a 0   *)
(* reported after a non-zero count included; totalTokens is their sum.     *)
C13_UsageIsLastReported ==
    \A p \in Procs :
        LET r == inv[p]
            u == r.output.usage
        IN (r.pc = "finished" /\ r.thrown = "") =>
            /\ u.input = LastReported(FramesOf(r.body), "input_token_count")
            /\ u.output =
                    LastReported(FramesOf(r.body), "generated_token_count")
            /\ u.totalTokens = u.input + u.output

----------------------------------------------------------------------------
\* The text of a turn: the string, or the text blocks joined by newlines
TurnText(content) ==
    IF content.kind = "string" THEN content.value
    ELSE LET texts == [i \in 1..Len(content.blocks) |->
                            content.blocks[i].text]
             Is(t) == t # Undefined
         IN Join(SelectSeq(texts, Is), <<"\n">>)

RoleMarker(role) == IF role = "user" THEN UserOpen ELSE AssistantOpen

\* The segments the rendering is to consist of
ExpectedSegments(context) ==
    LET Spoken(m) == m.role \in {"user", "assistant"}
        turns == SelectSeq(context.messages, Spoken)
        sys == context.systemPrompt
    IN (IF sys # Undefined /\ \E i \in 1..Len(sys) : sys[i] # " "
        THEN <<SystemOpen \o <<"\n">> \o sys \o <<"\n">> \o EndMarker>>
        ELSE <<>>)
       \o [i \in 1..Len(turns) |->
            RoleMarker(turns[i].role) \o <<"\n">>
                \o TurnText(turns[i].content) \o <<"\n">> \o EndMarker]
       \o <<AssistantOpen \o <<"\n">>>>

\* The invocation is past the point where it builds its prompt
PromptDue(r) == r.token # NoToken /\ r.pc \notin {"idle", "token"}

(* C14: prompt rendering is total and order-preserving: for every context  *)
(* whose messages have string or block-list content, buildWatsonxPrompt    *)
(* does not fail and returns the newline-join of one system segment iff    *)
(* systemPrompt is non-blank, then one segment per user/assistant message  *)
(* in the original order, wrapped in the markers of its role and holding   *)
(* its text, then the open assistant marker; other roles give no segment.  *)
C14_PromptTotalOrdered ==
    \A p \in Procs :
        LET r == inv[p]
        IN PromptDue(r) =>
            /\ r.thrown # "TypeError"
            /\ r.prompt = Join(ExpectedSegments(r.context), <<"\n">>)

----------------------------------------------------------------------------
(* C15: once the reader of the response body has been acquired it is       *)
(* released on every exit path of the read loop (end of the body, read     *)
(* error, abort), and the release comes before the terminal done or error  *)
(* event is pushed: the reader is held exactly while the loop runs or its  *)
(* finally block is pending, the release is always possible then, the      *)
(* step that releases pushes no event, and no invocation that has pushed   *)
(* its terminal event still holds the reader.                              *)
C15_ReaderReleased ==
    /\ [](\A p \in Procs :
            LET r == inv[p]
            IN /\ r.readerHeld = (r.pc \in {"read", "finally"})
               /\ r.pc = "read" => ENABLED ReadReject(p)
               /\ r.pc = "finally" => ENABLED ReleaseLock(p)
               /\ Idx(r.events, Terminal) # {} => ~r.readerHeld
               /\ r.pc = "finished" => ~r.readerHeld)
    /\ [][\A p \in Procs :
            LET r == inv[p]
                r2 == inv'[p]
            IN /\ (r.readerHeld /\ ~r2.readerHeld) =>
                    /\ r.pc = "finally"
                    /\ r2.pc \in {"finalize", "catch"}
                    /\ r2.events = r.events
                    /\ Idx(r.events, Terminal) = {}
               /\ (r2.pc = "finished" /\ r.pc # "finished") => ~r.readerHeld
         ]_vars

\* The signal fired while the body was read: the reader was acquired (start
\* was pushed), the read was aborted, and the reader is released at the error
C15_Witness ==
    /\ inv[1].pc = "finished"
    /\ inv[1].thrown = "AbortError"
    /\ inv[1].events = <<[type |-> "start"], [type |-> "error", reason |-> "error"]>>
    /\ ~inv[1].readerHeld

----------------------------------------------------------------------------
(* C16: the cache key disambiguates distinct credentials: for any two      *)
(* different credentials, two that agree on their first 16 characters      *)
(* included, a call with credential A never returns a token that was       *)
(* obtained by exchanging another credential B: the token an invocation    *)
(* holds was always issued for its own credential.                         *)
C16_KeyDisambiguates ==
    \A p \in Procs :
        inv[p].token # NoToken => inv[p].token.cred = inv[p].apiKey

----------------------------------------------------------------------------
(* C17: text-channel ordering within one stream: text_start is emitted at  *)
(* most once, only after start, and before the first text_delta, which     *)
(* follows it at once; no text_delta is emitted without a text_start       *)
(* before it; every text_delta has a non-empty delta; and the content of   *)
(* the output message holds no block before text_start and exactly one     *)
(* text block, at contentIndex 0, from then on.                            *)
C17_TextChannelOrder ==
    \A p \in Procs :
        LET r == inv[p]
            ev == r.events
            starts == Idx(ev, {"text_start"})
            deltas == Idx(ev, {"text_delta"})
        IN /\ Cardinality(starts) <= 1
           /\ \A i \in starts :
                /\ i > 1
                /\ ev[1].type = "start"
                /\ i + 1 \in deltas
                /\ \A j \in deltas : i < j
           /\ deltas # {} => starts # {}
           /\ \A j \in deltas : ev[j].delta # <<>>
           /\ \A j \in starts \cup deltas : ev[j].contentIndex = 0
           /\ starts = {} => r.output.content = <<>>
           /\ starts # {} =>
                /\ Len(r.output.content) = 1
                /\ r.output.content[1].type = "text"

\* Two frames, two deltas, one text_start and one text block
C17_Witness ==
    /\ inv[1].pc = "read"
    /\ Len(inv[1].events) = 4
    /\ inv[1].events[2].type = "text_start"
    /\ inv[1].events[3].type = "text_delta"
    /\ inv[1].events[4].type = "text_delta"
    /\ Len(inv[1].output.content) = 1

----------------------------------------------------------------------------
\* The loop's state had the first pos characters come in one single chunk
InOneChunk(body, pos) ==
    ProcessLines(EmitStart(NewInvocation), CompleteLines(body, pos))

\* The characters after the last newline among the first pos
Unterminated(body, pos) ==
    LET segs == Split(SubSeq(body, 1, pos))
    IN segs[Len(segs)]

(* C18: chunk-boundary independence: for a fixed body, the events emitted  *)
(* (types, deltas, text_end content) and the usage counters are the same   *)
(* for every way of splitting the body into the chunks of successive       *)
(* reads, splits inside a line or inside the data: prefix included: after  *)
(* any reads they are those of the characters read so far delivered as a   *)
(* single chunk, the buffer holds the characters after the last newline,   *)
(* and a stream read to its end finishes as the one-chunk stream does.     *)
C18_ChunkIndependence ==
    \A p \in Procs :
        LET r == inv[p]
            ref == InOneChunk(r.body, r.pos)
            end == EmitDone(EmitTextEnd(InOneChunk(r.body, Len(r.body))))
        IN /\ r.pc \in {"read", "finally", "finalize"} =>
                /\ r.events = ref.events
                /\ r.output = ref.output
                /\ r.fullText = ref.fullText
                /\ r.startedText = ref.startedText
                /\ r.buffer = Unterminated(r.body, r.pos)
           /\ (r.pc = "finished" /\ r.thrown = "") =>
                /\ r.events = end.events
                /\ r.output.content = end.output.content
                /\ r.output.usage.input = end.output.usage.input
                /\ r.output.usage.output = end.output.usage.output
                /\ r.output.usage.totalTokens =
                        end.output.usage.input + end.output.usage.output

\* A first frame has given its delta and a read has ended inside the data:
\* prefix of the second line
C18_Witness ==
    /\ inv[1].pc = "read"
    /\ inv[1].buffer = <<"d", "a">>
    /\ Idx(inv[1].events, {"text_delta"}) # {}
    /\ inv[1].pos < Len(inv[1].body)

----------------------------------------------------------------------------
\* The body up to and including its last newline
TerminatedPart(body) ==
    SubSeq(body, 1, Len(body) - Len(Unterminated(body, Len(body))))

(* C19: a data line is processed only once its newline has been received.  *)
(* When the body ends, what remains in the line buffer (a last line with   *)
(* no newline) is discarded without being parsed: the step that ends the   *)
(* loop changes no event, text or counter, and a stream read to its end    *)
(* has the deltas, the text_end content and the usage counters of the body *)
(* cut after its last newline; a last frame without newline shows in none. *)
C19_UnterminatedLineDiscarded ==
    /\ [](\A p \in Procs :
            LET r == inv[p]
                head == TerminatedPart(r.body)
                ref == InOneChunk(head, Len(head))
            IN (r.pc \in {"finalize", "finished"} /\ r.thrown = "") =>
                /\ r.buffer = Unterminated(r.body, Len(r.body))
                /\ SelectSeq(r.events, IsTextDelta) =
                        SelectSeq(ref.events, IsTextDelta)
                /\ r.fullText = ref.fullText
                /\ \A i \in Idx(r.events, {"text_end"}) :
                        r.events[i].content = ref.fullText
                /\ r.output.content = ref.output.content
                /\ r.output.usage.input = ref.output.usage.input
                /\ r.output.usage.output = ref.output.usage.output)
    /\ [][\A p \in Procs :
            LET r == inv[p]
                r2 == inv'[p]
            IN (r.pc = "read" /\ r2.pc = "finally" /\ r2.thrown = "") =>
                /\ r2.events = r.events
                /\ r2.output = r.output
                /\ r2.fullText = r.fullText
                /\ r2.startedText = r.startedText
         ]_vars

\* The lines  data: {ga}  and  data: {gab} , the second without newline:
\* one delta "a", text_end "a", done
C19_Witness ==
    /\ inv[1].pc = "finished"
    /\ LastType(inv[1].events) = "done"
    /\ FrameText(Unterminated(inv[1].body, Len(inv[1].body))) = <<"a", "b">>
    /\ DeltaText(inv[1].events) = <<"a">>
    /\ \E i \in Idx(inv[1].events, {"text_end"}) :
            inv[1].events[i].content = <<"a">>

----------------------------------------------------------------------------
\* The token exchange of the invocation has failed
ExchangeFailed(r) ==
    r.iamCalls = 1 /\ r.token = NoToken /\ r.pc \in {"catch", "finished"}

====
